---- MODULE Spec2Model ----
(***************************************************************************)
(* Model of the derive-divisible procedural macros (src/src/lib.rs) and of *)
(* the code they generate, evaluated against the Divisible trait and the   *)
(* BlocksIterator of src/examples/full.rs.                                 *)
(*                                                                         *)
(* The generator is modelled on the token level: every generate_* function *)
(* returns the tokens it quotes, and the generated base_length / divide_at *)
(* are evaluated from these tokens on a record instance.                   *)
(***************************************************************************)
EXTENDS Integers, Sequences, FiniteSets, TLC

(* ------------------------------ bounds --------------------------------- *)
MaxFields == 2      \* number of fields of a struct
MaxLen == 2         \* length of a slice held by a divisible field
MaxSizes == 3       \* number of block sizes handed to BlocksIterator
MaxSize == 4        \* largest block size
MaxBlockLen == 9    \* length of the slice iterated by blocks
MaxCalls == 2       \* number of iter calls on one record

\* std::usize::MAX, scaled to the integers TLC can represent
UsizeMax == 2147483647

(* ------------------------------ Option --------------------------------- *)
None == [some |-> FALSE, v |-> 0]
Some(x) == [some |-> TRUE, v |-> x]
NoGroup == [some |-> FALSE, v |-> ""]

\* derived Ord of Option: None < Some(_), Some(a) <= Some(b) iff a <= b
OptLeq(a, b) == IF ~a.some THEN TRUE ELSE b.some /\ a.v <= b.v

\* Iterator::min over a non-empty sequence of Option<usize>
RECURSIVE IterMin(_)
IterMin(s) ==
    IF Len(s) = 1 THEN s[1]
    ELSE LET m == IterMin(Tail(s))
         IN IF OptLeq(s[1], m) THEN s[1] ELSE m

(* --------------------------- syntax tree ------------------------------- *)
Idents == <<"a", "b", "c", "d">>
\* tokens of syn::Index::from(i) and of a quoted usize i
IndexTok == <<"0", "1", "2", "3">>
UsizeTok == <<"0usize", "1usize", "2usize", "3usize">>

Tokens == {"clone", "default", "copy", "bogus"}
\* no attribute, #[divide_by] without a group of arguments, #[divide_by(token)]
FieldAttrs ==
    {<<>>, <<[path |-> "divide_by", group |-> NoGroup]>>}
    \cup {<<[path |-> "divide_by", group |-> Some(t)]>> : t \in Tokens}
RecordAttrNames == <<"power", "item", "sequential_iterator", "iterator_extraction">>
AllRecordAttrs == {RecordAttrNames[i] : i \in 1..Len(RecordAttrNames)}
RecordAttrSets == {AllRecordAttrs} \cup {AllRecordAttrs \ {a} : a \in AllRecordAttrs}
RecordAttrs(S) ==
    SelectSeq([i \in 1..Len(RecordAttrNames) |->
                  [path |-> RecordAttrNames[i], group |-> Some(RecordAttrNames[i])]],
              LAMBDA a : a.path \in S)

FieldLists ==
    UNION {[1..n -> FieldAttrs] : n \in 0..MaxFields}
MkFields(as) == [i \in 1..Len(as) |-> [ident |-> Idents[i], attrs |-> as[i]]]

\* syn::Data: a struct with named, unnamed or no fields, an enum or a union
Datas ==
    {[shape |-> s, fields |-> MkFields(as)] : s \in {"Named", "Unnamed"}, as \in FieldLists}
    \cup {[shape |-> s, fields |-> <<>>] : s \in {"Unit", "Enum", "Union"}}

(* ---------------------------- generator -------------------------------- *)
\* Return argument of first attribute with given name.
RECURSIVE attributes_search(_, _)
attributes_search(attributes, searched_attribute_name) ==
    IF attributes = <<>> THEN NoGroup
    ELSE IF Head(attributes).path = searched_attribute_name
         THEN Head(attributes).group
         ELSE attributes_search(Tail(attributes), searched_attribute_name)

DivideBy == {"Clone", "Default", "Divisible"}

\* variant: an unknown token is taken for clone
find_strategy_UnknownIsClone(field) ==
    LET group == attributes_search(field.attrs, "divide_by")
    IN IF ~group.some THEN "Divisible"
       ELSE CASE group.v = "default" -> "Default"
              [] OTHER -> "Clone"

\* figure out what division strategy to use for a given field.
find_strategy(field) ==
    LET group == attributes_search(field.attrs, "divide_by")
    IN IF ~group.some THEN "Divisible"
       ELSE CASE group.v = "clone" -> "Clone"
              [] group.v = "default" -> "Default"
              [] OTHER -> "Divisible"

\* positions of the fields a filter on DivideBy::Divisible keeps, in order
RECURSIVE DivisiblePositions(_, _)
DivisiblePositions(fields, i) ==
    IF i > Len(fields) THEN <<>>
    ELSE (IF find_strategy(fields[i]) = "Divisible" THEN <<i>> ELSE <<>>)
         \o DivisiblePositions(fields, i + 1)

Unimplemented == [panic |-> "not implemented"]
IsPanic(x) == "panic" \in DOMAIN x

\* variant: the first divisible field is taken when there are several
divisible_content_first(data) ==
    CASE data.shape \in {"Named", "Unnamed"} ->
           LET ps == DivisiblePositions(data.fields, 1)
           IN IF Len(ps) = 0 THEN [found |-> NoGroup]
              ELSE [found |-> Some(IF data.shape = "Named"
                                   THEN data.fields[ps[1]].ident
                                   ELSE UsizeTok[ps[1]])]
      [] data.shape = "Unit" -> [found |-> NoGroup]
      [] OTHER -> Unimplemented

\* find divisible field if only one.
divisible_content(data) ==
    CASE data.shape = "Named" ->
           LET names == [k \in 1..Len(DivisiblePositions(data.fields, 1)) |->
                            data.fields[DivisiblePositions(data.fields, 1)[k]].ident]
           IN IF Len(names) = 0 \/ Len(names) >= 2 THEN [found |-> NoGroup]
              ELSE [found |-> Some(names[1])]
      [] data.shape = "Unnamed" ->
           LET names == [k \in 1..Len(DivisiblePositions(data.fields, 1)) |->
                            UsizeTok[DivisiblePositions(data.fields, 1)[k]]]
           IN IF Len(names) = 0 \/ Len(names) >= 2 THEN [found |-> NoGroup]
              ELSE [found |-> Some(names[1])]
      [] data.shape = "Unit" -> [found |-> NoGroup]
      [] OTHER -> Unimplemented

\* variant: the tuple is read in reverse order
generate_fields_reversed(data, index) ==
    CASE data.shape = "Named" ->
           [i \in 1..Len(data.fields) |->
               [member |-> data.fields[i].ident,
                tuple |-> Len(data.fields) + 1 - i, side |-> index]]
      [] data.shape = "Unnamed" ->
           [i \in 1..Len(data.fields) |->
               [member |-> "", tuple |-> Len(data.fields) + 1 - i, side |-> index]]
      [] data.shape = "Unit" -> <<>>
      [] OTHER -> Unimplemented

\* Fill fields of target struct from content of tuple storing split fields.
generate_fields(data, index) ==
    CASE data.shape = "Named" ->
           [i \in 1..Len(data.fields) |->
               [member |-> data.fields[i].ident, tuple |-> i, side |-> index]]
      [] data.shape = "Unnamed" ->
           [i \in 1..Len(data.fields) |->
               [member |-> "", tuple |-> i, side |-> index]]
      [] data.shape = "Unit" -> <<>>
      [] OTHER -> Unimplemented

\* compute base length of the structure
generate_len_expression(data) ==
    CASE data.shape = "Named" ->
           [kind |-> "chain_min",
            members |-> [k \in 1..Len(DivisiblePositions(data.fields, 1)) |->
                            data.fields[DivisiblePositions(data.fields, 1)[k]].ident]]
      [] data.shape = "Unnamed" ->
           [kind |-> "chain_min",
            members |-> [k \in 1..Len(DivisiblePositions(data.fields, 1)) |->
                            UsizeTok[DivisiblePositions(data.fields, 1)[k]]]]
      [] data.shape = "Unit" -> [kind |-> "usize_max", members |-> <<>>]
      [] OTHER -> Unimplemented

\* variant: the default value goes to the left and the original to the right
SplitOps_DefaultOnLeft(strategy) ==
    CASE strategy = "Clone" -> <<"clone", "move">>
      [] strategy = "Default" -> <<"default", "move">>
      [] strategy = "Divisible" -> <<"divide_at">>

\* variant: a clone field is moved to both halves
SplitOps_CloneMovesTwice(strategy) ==
    CASE strategy = "Clone" -> <<"move", "move">>
      [] strategy = "Default" -> <<"move", "default">>
      [] strategy = "Divisible" -> <<"divide_at">>

\* the tuple element quoted for one field: the operations applied to self.member
SplitOps(strategy) ==
    CASE strategy = "Clone" -> <<"clone", "move">>
      [] strategy = "Default" -> <<"move", "default">>
      [] strategy = "Divisible" -> <<"divide_at">>

\* Generate the function splitting the divisible
generate_split_declarations(data) ==
    CASE data.shape = "Named" ->
           [i \in 1..Len(data.fields) |->
               [member |-> data.fields[i].ident,
                ops |-> SplitOps(find_strategy(data.fields[i]))]]
      [] data.shape = "Unnamed" ->
           [i \in 1..Len(data.fields) |->
               [member |-> IndexTok[i],
                ops |-> SplitOps(find_strategy(data.fields[i]))]]
      [] data.shape = "Unit" -> <<>>
      [] OTHER -> Unimplemented

NoImpl == [trait |-> "none"]

(* ------------------------- values at run time -------------------------- *)
Slice(items) == [kind |-> "slice", items |-> items]
Range(start, end) == [kind |-> "range", start |-> start, end |-> end]
Val(n) == [kind |-> "val", v |-> n]

\* Default::default() of a field that is moved to the left
DefaultValue == Val(0)

\* impl Divisible<IndexedPower> for &[T], and a divisible of unknown length
\* (an open range) as the trait's Option<usize> allows
FieldBaseLength(x) ==
    IF x.kind = "slice" THEN Some(Len(x.items))
    ELSE IF x.end.some THEN Some(x.end.v - x.start) ELSE None

SplitPanic == [panic |-> "mid > len"]

FieldDivideAt(x, index) ==
    IF x.kind = "slice"
    THEN IF index > Len(x.items) THEN SplitPanic
         ELSE [left |-> Slice(SubSeq(x.items, 1, index)),
               right |-> Slice(SubSeq(x.items, index + 1, Len(x.items)))]
    ELSE [left |-> Range(x.start, Some(x.start + index)),
          right |-> Range(x.start + index, x.end)]

\* the values a field of the given position and strategy may hold
FieldValues(p, strategy) ==
    IF strategy = "Divisible"
    THEN {Slice([k \in 1..n |-> 10 * p + k]) : n \in 0..MaxLen} \cup {Range(10 * p, None)}
    ELSE {Val(p)}

RECURSIVE InstancesFrom(_, _)
InstancesFrom(fields, p) ==
    IF p > Len(fields) THEN {<<>>}
    ELSE {<<x>> \o rest : x \in FieldValues(p, find_strategy(fields[p])),
                          rest \in InstancesFrom(fields, p + 1)}

\* the records of a struct: every field holds a value of its type
Instances(data) == InstancesFrom(data.fields, 1)

(* ----------------------- the generated functions ----------------------- *)
\* the name a member of the struct is accessed by
MemberName(data, p) ==
    IF data.shape = "Named" THEN data.fields[p].ident ELSE IndexTok[p]

\* a usize suffix on a tuple index is accepted from macro output
Resolves(data, tok, p) ==
    \/ MemberName(data, p) = tok
    \/ data.shape = "Unnamed" /\ UsizeTok[p] = tok

Resolve(data, tok) == CHOOSE p \in 1..Len(data.fields) : Resolves(data, tok, p)

\* #name { #left_fields } is a struct expression only if every field is
\* initialised once, by its member name
StructExprOk(data, inits) ==
    /\ \A k \in 1..Len(inits) : inits[k].member # ""
    /\ \A p \in 1..Len(data.fields) :
          Cardinality({k \in 1..Len(inits) : Resolves(data, inits[k].member, p)}) = 1

WellFormed(data, impl) ==
    /\ StructExprOk(data, impl.left_fields)
    /\ StructExprOk(data, impl.right_fields)

\* Iterator::max over a non-empty sequence of Option<usize>
RECURSIVE IterMax(_)
IterMax(s) ==
    IF Len(s) = 1 THEN s[1]
    ELSE LET m == IterMax(Tail(s))
         IN IF OptLeq(s[1], m) THEN m ELSE s[1]

\* variant: the length of the longest field, as in the unbounded-size policy
base_length_max(data, impl, s) ==
    IF impl.len_expression.kind = "usize_max" THEN Some(UsizeMax)
    ELSE LET ms == impl.len_expression.members
         IN IterMax(<<Some(UsizeMax)>> \o
                    [k \in 1..Len(ms) |-> FieldBaseLength(s[Resolve(data, ms[k])])])

\* fn base_length(&self) -> Option<usize> { #len_expression }
base_length(data, impl, s) ==
    IF impl.len_expression.kind = "usize_max" THEN Some(UsizeMax)
    ELSE LET ms == impl.len_expression.members
         IN IterMin(<<Some(UsizeMax)>> \o
                    [k \in 1..Len(ms) |-> FieldBaseLength(s[Resolve(data, ms[k])])])

\* one operand of a quoted pair, applied to field p of self
EvalOp(op, s, p) ==
    CASE op = "clone" -> [val |-> s[p], src |-> "clone", of |-> p]
      [] op = "move" -> [val |-> s[p], src |-> "self", of |-> p]
      [] op = "default" -> [val |-> DefaultValue, src |-> "default", of |-> 0]

\* let split_fields = (#(#recurse, )*);
EvalSplitElement(data, e, s, index) ==
    LET p == Resolve(data, e.member)
    IN IF e.ops = <<"divide_at">>
       THEN LET r == FieldDivideAt(s[p], index)
            IN IF IsPanic(r) THEN r
               ELSE [left |-> [val |-> r.left, src |-> "divide_at.0", of |-> p],
                     right |-> [val |-> r.right, src |-> "divide_at.1", of |-> p]]
       ELSE [left |-> EvalOp(e.ops[1], s, p), right |-> EvalOp(e.ops[2], s, p)]

EvalSplit(data, impl, s, index) ==
    [k \in 1..Len(impl.split_expression) |->
        EvalSplitElement(data, impl.split_expression[k], s, index)]

\* the uses of self.p while the tuple is built, in evaluation order
RECURSIVE UsesOf(_, _, _, _)
UsesOf(data, exprs, p, k) ==
    IF k > Len(exprs) THEN <<>>
    ELSE (IF Resolve(data, exprs[k].member) = p
          THEN SelectSeq(exprs[k].ops, LAMBDA op : op # "default")
          ELSE <<>>) \o UsesOf(data, exprs, p, k + 1)

\* (split_fields.#i).#index
Project(tuple, init) ==
    IF init.side = 0 THEN tuple[init.tuple].left ELSE tuple[init.tuple].right

\* #name { #left_fields }
StructExpr(data, inits, tuple) ==
    [p \in 1..Len(data.fields) |->
        Project(tuple, inits[CHOOSE k \in 1..Len(inits) : Resolves(data, inits[k].member, p)])]

Vals(rec) == [p \in 1..Len(rec) |-> rec[p].val]

\* variant: the two records are returned in the other order
generated_divide_at_swapped(data, impl, s, i) ==
    LET tuple == EvalSplit(data, impl, s, i)
    IN IF \E k \in 1..Len(tuple) : IsPanic(tuple[k]) THEN SplitPanic
       ELSE [split_fields |-> tuple,
             left |-> StructExpr(data, impl.right_fields, tuple),
             right |-> StructExpr(data, impl.left_fields, tuple)]

\* fn divide_at(self, index: usize) -> (Self, Self)
generated_divide_at(data, impl, s, i) ==
    LET tuple == EvalSplit(data, impl, s, i)
    IN IF \E k \in 1..Len(tuple) : IsPanic(tuple[k]) THEN SplitPanic
       ELSE [split_fields |-> tuple,
             left |-> StructExpr(data, impl.left_fields, tuple),
             right |-> StructExpr(data, impl.right_fields, tuple)]

\* the implementation derive(Divisible) quotes
DivisibleImpl(data) ==
    [trait |-> "Divisible",
     len_expression |-> generate_len_expression(data),
     split_expression |-> generate_split_declarations(data),
     left_fields |-> generate_fields(data, 0),
     right_fields |-> generate_fields(data, 1)]

\* struct Map of examples/full.rs
MapData ==
    [shape |-> "Named",
     fields |-> <<[ident |-> "map_op",
                   attrs |-> <<[path |-> "divide_by", group |-> Some("clone")]>>],
                  [ident |-> "iterator", attrs |-> <<>>],
                  [ident |-> "phantom",
                   attrs |-> <<[path |-> "divide_by", group |-> Some("default")]>>]>>]

\* the items of a record, in order: those of its inner iterator
Items(data, rec) ==
    rec[Resolve(data, divisible_content(data).found.v)].items

\* what flat_map yields for a sequence of blocks
RECURSIVE Flatten(_, _)
Flatten(data, bs) ==
    IF bs = <<>> THEN <<>>
    ELSE Items(data, Head(bs)) \o Flatten(data, Tail(bs))

SizeSeqs == UNION {[1..n -> 0..MaxSize] : n \in 0..MaxSizes}

(* ------------------- the generated ParallelIterator -------------------- *)
Rayon(n) == [rayon |-> n]

\* a ParallelIterator over items that overrides blocks_sizes and policy
Hinted(items, bs, pol) == [kind |-> "hinted", items |-> items, sizes |-> bs, policy |-> pol]

IterPanic == [panic |-> "index out of range for slice"]

\* impl ParallelIterator<IndexedPower> for &[T]: (self[..size].iter(), &self[size..])
FieldIter(x, size) ==
    IF size > Len(x.items) THEN IterPanic
    ELSE [i |-> SubSeq(x.items, 1, size),
          remaining |-> [x EXCEPT !.items = SubSeq(x.items, size + 1, Len(x.items))]]

\* the trait's defaults for a slice: Box::new(empty()) and Policy::Rayon(1)
FieldBlocksSizes(x) == IF x.kind = "slice" THEN <<>> ELSE x.sizes
FieldPolicy(x) == IF x.kind = "slice" THEN Rayon(1) ELSE x.policy

\* the values the inner iterator of a record may hold
InnerValues(p) ==
    {Slice([k \in 1..n |-> 10 * p + k]) : n \in 0..MaxLen}
    \cup {Hinted([k \in 1..MaxLen |-> 10 * p + k], <<1, 2>>, Rayon(2))}

RECURSIVE ParInstancesFrom(_, _)
ParInstancesFrom(fields, p) ==
    IF p > Len(fields) THEN {<<>>}
    ELSE {<<x>> \o rest :
            x \in (IF find_strategy(fields[p]) = "Divisible"
                   THEN InnerValues(p) ELSE {Val(p)}),
            rest \in ParInstancesFrom(fields, p + 1)}

\* the records of a struct that wraps one inner iterator
ParInstances(data) == ParInstancesFrom(data.fields, 1)

\* variant: the remainder is not stored back into the inner field
generated_iter_NoStore(data, impl, s, size) ==
    LET p == Resolve(data, impl.inner_iterator)
        r == FieldIter(s[p], size)
    IN IF IsPanic(r) THEN r
       ELSE [sequential |-> [template |-> impl.iterator_extraction, i |-> r.i],
             self |-> s]

\* fn iter(mut self, size: usize) -> (Self::SequentialIterator, Self)
generated_iter(data, impl, s, size) ==
    LET p == Resolve(data, impl.inner_iterator)
        r == FieldIter(s[p], size)
    IN IF IsPanic(r) THEN r
       ELSE [sequential |-> [template |-> impl.iterator_extraction, i |-> r.i],
             self |-> [s EXCEPT ![Resolve(data, impl.inner_iterator)] = r.remaining]]

\* variant: the trait's default is returned instead of the inner field's sizes
generated_blocks_sizes_default(data, impl, s) == <<>>

\* fn blocks_sizes(&mut self) -> Box<Iterator<Item=usize>>
generated_blocks_sizes(data, impl, s) ==
    FieldBlocksSizes(s[Resolve(data, impl.inner_iterator)])

\* fn policy(&self) -> Policy
generated_policy(data, impl, s) ==
    FieldPolicy(s[Resolve(data, impl.inner_iterator)])

(* ------------------------------ state ---------------------------------- *)
VARIABLES
    pc,           \* position: input, emitted, panic, rejected, ready, divided,
                  \* split_panic, iterating, done
    input,        \* the DeriveInput: [data, attrs]
    macro,        \* the derive macro that ran
    expanded,     \* the implementation the macro emitted
    panic_msg,    \* message of the panic that aborted the macro or the call
    self,         \* the record instance, its fields in declaration order
    length,       \* <<>> or <<result of self.base_length()>>
    index,        \* argument of divide_at
    split_fields, \* the tuple of pairs built by divide_at
    uses,         \* per field of self, what divide_at did with it, in order
    left,         \* first record returned by divide_at
    right,        \* second record returned by divide_at
    sizes,        \* BlocksIterator: sizes of all the remaining blocks
    remaining,    \* BlocksIterator: remaining input, <<>> is None
    produced,     \* the blocks next returned, in order
    current,      \* the record iter carries forward
    calls,        \* the sizes iter was called with, in order
    sequential,   \* <<>> or <<the sequential iterator iter returned last>>
    sizes_hint,   \* <<>> or <<what blocks_sizes returned>>
    policy_hint   \* <<>> or <<what policy returned>>

vars == <<pc, input, macro, expanded, panic_msg, self, length, index,
          split_fields, uses, left, right, sizes, remaining, produced,
          current, calls, sequential, sizes_hint, policy_hint>>

runvars == <<self, length, index, split_fields, uses, left, right>>
itervars == <<sizes, remaining, produced>>
parvars == <<current, calls, sequential, sizes_hint, policy_hint>>

Init ==
    /\ pc = "input"
    /\ input \in {[data |-> d, attrs |-> RecordAttrs(S)] : d \in Datas, S \in RecordAttrSets}
    /\ macro = "none"
    /\ expanded = NoImpl
    /\ panic_msg = ""
    /\ self = <<>>
    /\ length = <<>>
    /\ index = 0
    /\ split_fields = <<>>
    /\ uses = <<>>
    /\ left = <<>>
    /\ right = <<>>
    /\ sizes = <<>>
    /\ remaining = <<>>
    /\ produced = <<>>
    /\ current = <<>>
    /\ calls = <<>>
    /\ sequential = <<>>
    /\ sizes_hint = <<>>
    /\ policy_hint = <<>>

Missing(name) == ~attributes_search(input.attrs, name).some

Abort(msg) ==
    /\ pc' = "panic"
    /\ panic_msg' = msg
    /\ expanded' = NoImpl

Emit(impl) ==
    /\ pc' = "emitted"
    /\ panic_msg' = ""
    /\ expanded' = impl

derive_divisible ==
    /\ pc = "input"
    /\ macro' = "Divisible"
    /\ IF Missing("power") THEN Abort("missing power attribute")
       ELSE IF IsPanic(generate_len_expression(input.data)) THEN Abort("not implemented")
       ELSE Emit(DivisibleImpl(input.data))
    /\ UNCHANGED <<input, runvars, itervars, parvars>>

derive_parallel_iterator ==
    /\ pc = "input"
    /\ macro' = "ParallelIterator"
    /\ IF Missing("power") THEN Abort("missing power attribute")
       ELSE IF Missing("item") THEN Abort("missing item attribute")
       ELSE IF Missing("sequential_iterator")
            THEN Abort("missing sequential_iterator attribute")
       ELSE IF Missing("iterator_extraction")
            THEN Abort("missing iterator_extraction attribute")
       ELSE IF IsPanic(divisible_content(input.data)) THEN Abort("not implemented")
       ELSE IF ~divisible_content(input.data).found.some
            THEN Abort("we could not find only one iterator inside us")
       ELSE Emit([trait |-> "ParallelIterator",
                  inner_iterator |-> divisible_content(input.data).found.v,
                  iterator_extraction |->
                      attributes_search(input.attrs, "iterator_extraction").v])
    /\ UNCHANGED <<input, runvars, itervars, parvars>>

derive_intoiterator ==
    /\ pc = "input"
    /\ macro' = "IntoIterator"
    /\ IF Missing("power") THEN Abort("missing power attribute")
       ELSE IF Missing("item") THEN Abort("missing item attribute")
       ELSE Emit([trait |-> "IntoIterator"])
    /\ UNCHANGED <<input, runvars, itervars, parvars>>

\* the derived implementation is compiled and a record is built
main ==
    /\ pc = "emitted"
    /\ macro = "Divisible"
    /\ IF WellFormed(input.data, expanded)
       THEN /\ pc' = "ready"
            /\ self' \in Instances(input.data)
       ELSE /\ pc' = "rejected"
            /\ self' = self
    /\ UNCHANGED <<input, macro, expanded, panic_msg, length, index,
                   split_fields, uses, left, right, itervars, parvars>>

\* self.base_length()
call_base_length ==
    /\ pc = "ready"
    /\ length = <<>>
    /\ length' = <<base_length(input.data, expanded, self)>>
    /\ UNCHANGED <<pc, input, macro, expanded, panic_msg, self, index,
                   split_fields, uses, left, right, itervars, parvars>>

\* self.divide_at(i)
divide_at(i) ==
    /\ pc = "ready"
    /\ index' = i
    /\ LET r == generated_divide_at(input.data, expanded, self, i)
       IN IF IsPanic(r)
          THEN /\ pc' = "split_panic"
               /\ panic_msg' = r.panic
               /\ UNCHANGED <<split_fields, uses, left, right>>
          ELSE /\ pc' = "divided"
               /\ panic_msg' = ""
               /\ split_fields' = r.split_fields
               /\ uses' = [p \in 1..Len(self) |->
                              UsesOf(input.data, expanded.split_expression, p, 1)]
               /\ left' = r.left
               /\ right' = r.right
    /\ UNCHANGED <<input, macro, expanded, self, length, itervars, parvars>>

Next ==
    \/ derive_divisible
    \/ derive_parallel_iterator
    \/ derive_intoiterator
    \/ main
    \/ call_base_length
    \/ \E i \in 0..MaxLen + 1 : divide_at(i)

Spec == Init /\ [][Next]_vars

(* ----------------------- iteration by blocks --------------------------- *)
\* a Map over a slice, its Divisible implementation derived
InitBlocks ==
    /\ pc = "ready"
    /\ input = [data |-> MapData, attrs |-> RecordAttrs(AllRecordAttrs)]
    /\ macro = "Divisible"
    /\ expanded = DivisibleImpl(MapData)
    /\ panic_msg = ""
    /\ self \in {<<Val(1), Slice([k \in 1..n |-> 20 + k]), Val(3)>> : n \in 0..MaxBlockLen}
    /\ length = <<>>
    /\ index = 0
    /\ split_fields = <<>>
    /\ uses = <<>>
    /\ left = <<>>
    /\ right = <<>>
    /\ sizes = <<>>
    /\ remaining = <<>>
    /\ produced = <<>>
    /\ current = <<>>
    /\ calls = <<>>
    /\ sequential = <<>>
    /\ sizes_hint = <<>>
    /\ policy_hint = <<>>

\* self.blocks(sizes)
blocks(s) ==
    /\ pc = "ready"
    /\ pc' = "iterating"
    /\ sizes' = s
    /\ remaining' = <<self>>
    /\ UNCHANGED <<input, macro, expanded, panic_msg, runvars, produced, parvars>>

\* BlocksIterator::next
next ==
    /\ pc = "iterating"
    /\ IF remaining = <<>>
       THEN /\ pc' = "done"
            /\ UNCHANGED <<sizes, remaining, produced, panic_msg>>
       ELSE LET remaining_length == base_length(input.data, expanded, remaining[1])
            IN IF remaining_length.some /\ remaining_length.v = 0
               THEN /\ pc' = "done"
                    /\ UNCHANGED <<sizes, remaining, produced, panic_msg>>
               ELSE IF sizes # <<>>
               THEN LET r == generated_divide_at(input.data, expanded,
                                                 remaining[1], Head(sizes))
                    IN /\ sizes' = Tail(sizes)
                       /\ IF IsPanic(r)
                          THEN /\ pc' = "split_panic"
                               /\ panic_msg' = r.panic
                               /\ remaining' = <<>>
                               /\ produced' = produced
                          ELSE /\ pc' = pc
                               /\ panic_msg' = panic_msg
                               /\ remaining' = <<Vals(r.right)>>
                               /\ produced' = Append(produced, Vals(r.left))
               ELSE /\ pc' = pc
                    /\ produced' = Append(produced, remaining[1])
                    /\ remaining' = <<>>
                    /\ UNCHANGED <<sizes, panic_msg>>
    /\ UNCHANGED <<input, macro, expanded, runvars, parvars>>

NextBlocks ==
    \/ \E s \in SizeSeqs : blocks(s)
    \/ next

SpecBlocks == InitBlocks /\ [][NextBlocks]_vars

(* ------------------ sequential iterators of a record ------------------- *)
\* the derived ParallelIterator is compiled and a record is built
build ==
    /\ pc = "emitted"
    /\ macro = "ParallelIterator"
    /\ pc' = "par_ready"
    /\ self' \in ParInstances(input.data)
    /\ current' = self'
    /\ UNCHANGED <<input, macro, expanded, panic_msg, length, index, split_fields,
                   uses, left, right, itervars, calls, sequential, sizes_hint,
                   policy_hint>>

\* current.iter(size)
iter(size) ==
    /\ pc = "par_ready"
    /\ Len(calls) < MaxCalls
    /\ LET r == generated_iter(input.data, expanded, current, size)
       IN IF IsPanic(r)
          THEN /\ pc' = "iter_panic"
               /\ panic_msg' = r.panic
               /\ UNCHANGED <<current, calls, sequential>>
          ELSE /\ pc' = pc
               /\ panic_msg' = panic_msg
               /\ current' = r.self
               /\ calls' = Append(calls, size)
               /\ sequential' = <<r.sequential>>
    /\ UNCHANGED <<input, macro, expanded, runvars, itervars, sizes_hint, policy_hint>>

\* current.blocks_sizes()
blocks_sizes ==
    /\ pc = "par_ready"
    /\ sizes_hint' = <<generated_blocks_sizes(input.data, expanded, current)>>
    /\ UNCHANGED <<pc, input, macro, expanded, panic_msg, runvars, itervars,
                   current, calls, sequential, policy_hint>>

\* current.policy()
policy ==
    /\ pc = "par_ready"
    /\ policy_hint' = <<generated_policy(input.data, expanded, current)>>
    /\ UNCHANGED <<pc, input, macro, expanded, panic_msg, runvars, itervars,
                   current, calls, sequential, sizes_hint>>

NextIter ==
    \/ derive_parallel_iterator
    \/ build
    \/ \E size \in 0..MaxLen + 1 : iter(size)
    \/ blocks_sizes
    \/ policy

SpecIter == Init /\ [][NextIter]_vars

(* ----------------------------- properties ------------------------------ *)
\* the token of a field's divide_by annotation, "" when it has none
Annot(f) == IF f.attrs = <<>> THEN "" ELSE f.attrs[1].group.v
Fields == input.data.fields
Annotated(tok) == {p \in 1..Len(Fields) : Annot(Fields[p]) = tok}
\* the fields split recursively: all but those annotated clone or default
RecurseFields == {p \in 1..Len(Fields) : Annot(Fields[p]) \notin {"clone", "default"}}
Emitted(m) == pc = "emitted" /\ macro = m
Lengths(ps) == {FieldBaseLength(self[p]) : p \in ps}
Finite(ls) == {l.v : l \in {x \in ls : x.some}}
MinOf(S) == CHOOSE m \in S : \A x \in S : m <= x
BL(rec) == base_length(input.data, expanded, rec)

\* C1: a field annotated divide_by(copy) resolves to CopyBoth: the generated
\* code neither splits it recursively nor counts it in the length, and after
\* a split both halves hold a duplicate of its original value.
C1_CopyIsCopyBoth ==
    \A p \in Annotated("copy") :
        /\ Emitted("Divisible") =>
              /\ find_strategy(Fields[p]) # "Divisible"
              /\ expanded.split_expression[p].ops # <<"divide_at">>
              /\ \A k \in 1..Len(expanded.len_expression.members) :
                    ~Resolves(input.data, expanded.len_expression.members[k], p)
        /\ pc = "divided" => left[p].val = self[p] /\ right[p].val = self[p]

\* C2: base_length of a record is the minimum of the finite lengths its
\* Recurse fields report; a field reporting None is left out of the minimum,
\* clone and default fields never count, and the record is unbounded when no
\* Recurse field reports a finite length.
C2_MinOfFiniteLengths ==
    (length # <<>> /\ Annotated("copy") = {}) =>
        IF Finite(Lengths(RecurseFields)) # {}
        THEN length[1] = Some(MinOf(Finite(Lengths(RecurseFields))))
        ELSE length[1] \in {None, Some(UsizeMax)}

\* C3: after divide_at a clone field equals the original on both halves, a
\* default field holds the original on the left and the default value on the
\* right, and the halves of a Recurse field are the pair its own divide_at
\* returns for the same index.
C3_StrategyCorrect ==
    pc = "divided" =>
        /\ \A p \in Annotated("clone") :
              left[p].val = self[p] /\ right[p].val = self[p]
        /\ \A p \in Annotated("default") :
              left[p].val = self[p] /\ right[p].val = DefaultValue
        /\ \A p \in RecurseFields :
              /\ left[p].val = FieldDivideAt(self[p], index).left
              /\ right[p].val = FieldDivideAt(self[p], index).right

C3_Witness ==
    /\ pc = "divided"
    /\ index = 1
    /\ \E p \in Annotated("default"), q \in Annotated("") :
          self[q] = Slice(<<10 * q + 1, 10 * q + 2>>)

\* C4 as stated: for every record, splitting at 0 gives a left half of length
\* 0 and a right half of the original length, and splitting at the full
\* length gives the mirror image.
C4_BoundaryEveryRecord ==
    pc = "divided" =>
        /\ index = 0 => BL(Vals(left)) = Some(0) /\ BL(Vals(right)) = BL(self)
        /\ BL(self) = Some(index) =>
              BL(Vals(left)) = BL(self) /\ BL(Vals(right)) = Some(0)

\* C4 amended: the boundary property holds for every record that has at
\* least one Recurse field.
C4_BoundaryWithRecurseField ==
    (pc = "divided" /\ RecurseFields # {}) =>
        /\ index = 0 => BL(Vals(left)) = Some(0) /\ BL(Vals(right)) = BL(self)
        /\ BL(self) = Some(index) =>
              BL(Vals(left)) = BL(self) /\ BL(Vals(right)) = Some(0)

C4_Witness ==
    /\ pc = "divided"
    /\ Cardinality(RecurseFields) = 2
    /\ BL(self) = Some(1)
    /\ index = 1
    /\ \E p \in RecurseFields : FieldBaseLength(self[p]) = Some(2)

\* the data with the annotation of field p replaced
WithAttrs(p, as) == [input.data EXCEPT !.fields[p].attrs = as]
Bogus == <<[path |-> "divide_by", group |-> Some("bogus")]>>
Toggled(p) == WithAttrs(p, IF Fields[p].attrs = <<>> THEN Bogus ELSE <<>>)

\* C5: an unannotated field and a field annotated with an unknown token both
\* resolve to Recurse, whatever the field's name, and exchanging one for the
\* other changes neither the length expression, nor the split, nor the
\* single-child search.
C5_UnknownTokenIsRecurse ==
    \A p \in Annotated("") \cup Annotated("bogus") :
        /\ find_strategy(Fields[p]) = "Divisible"
        /\ find_strategy(Toggled(p).fields[p]) = "Divisible"
        /\ \A id \in {Idents[i] : i \in 1..Len(Idents)} :
              find_strategy([Fields[p] EXCEPT !.ident = id]) = "Divisible"
        /\ Emitted("Divisible") => expanded = DivisibleImpl(Toggled(p))
        /\ Emitted("ParallelIterator") =>
              divisible_content(Toggled(p)).found = Some(expanded.inner_iterator)
        /\ (pc = "panic" /\ macro = "ParallelIterator"
              /\ panic_msg = "we could not find only one iterator inside us") =>
              ~divisible_content(Toggled(p)).found.some

C5_Witness ==
    /\ Emitted("Divisible")
    /\ \E p \in Annotated("") : Fields[p].attrs = <<>>
    /\ Annotated("bogus") # {}

\* C6: both records returned by divide_at have the fields of the original,
\* in declaration order, and field p of the left (right) record is the left
\* (right) element of the pair computed for field p.
C6_OrderPreserved ==
    pc = "divided" =>
        /\ DOMAIN left = DOMAIN self
        /\ DOMAIN right = DOMAIN self
        /\ \A p \in DOMAIN self :
              /\ left[p] = split_fields[p].left
              /\ right[p] = split_fields[p].right
              /\ left[p].of \in {0, p}
              /\ right[p].of \in {0, p}

C6_Witness ==
    /\ pc = "divided"
    /\ Len(self) = 2
    /\ split_fields[1] # split_fields[2]
    /\ split_fields[1].left.val # split_fields[2].left.val

\* C7: derive(ParallelIterator) emits glue only for a record with exactly
\* one Recurse field, and the glue delegates to that field; with no Recurse
\* field or with several, the macro fails.
C7_SingleChild ==
    (macro = "ParallelIterator" /\ pc # "input") =>
        /\ pc = "emitted" =>
              /\ Cardinality(RecurseFields) = 1
              /\ \A p \in RecurseFields :
                    Resolves(input.data, expanded.inner_iterator, p)
        /\ Cardinality(RecurseFields) # 1 => pc = "panic" /\ expanded = NoImpl

C7_Witness ==
    /\ macro = "ParallelIterator"
    /\ pc = "panic"
    /\ panic_msg = "we could not find only one iterator inside us"
    /\ Cardinality(RecurseFields) = 2

\* C8: the blocks returned by BlocksIterator::next, concatenated in the
\* order they were returned and followed by what remains, are the items of
\* the input in order; when the iteration ends they are all the items.
C8_BlocksInOrder ==
    /\ pc = "iterating" =>
          Flatten(input.data, produced \o remaining) = Items(input.data, self)
    /\ pc = "done" => Flatten(input.data, produced) = Items(input.data, self)

C8_Witness ==
    /\ pc = "done"
    /\ Len(Items(input.data, self)) = 9
    /\ Len(produced) = 3
    /\ Len(Items(input.data, produced[1])) = 3
    /\ Len(Items(input.data, produced[2])) = 4
    /\ Len(Items(input.data, produced[3])) = 2

\* C9: every derive macro fails on an enum or a union and emits nothing.
C9_RejectsEnumAndUnion ==
    (pc # "input" /\ input.data.shape \in {"Enum", "Union"}) =>
        pc = "panic" /\ expanded = NoImpl

\* C10: in one divide_at every field of both halves is initialised and
\* every original field value is consumed exactly once, by its last use: a
\* Recurse field by one call of its divide_at, a default field by the move
\* to the left half, a clone field by the move to one half while the other
\* half holds a copy.
Consuming == {"move", "divide_at"}
OwnedBy(rec, p) == {q \in DOMAIN rec : rec[q].src = "self" /\ rec[q].of = p}
C10_ConsumedOnce ==
    pc = "divided" =>
        /\ DOMAIN left = DOMAIN self /\ DOMAIN right = DOMAIN self
        /\ \A p \in DOMAIN self :
              /\ Cardinality({k \in DOMAIN uses[p] : uses[p][k] \in Consuming}) = 1
              /\ uses[p][Len(uses[p])] \in Consuming
              /\ Cardinality(OwnedBy(left, p)) + Cardinality(OwnedBy(right, p)) <= 1
        /\ \A p \in RecurseFields :
              /\ uses[p] = <<"divide_at">>
              /\ left[p].src = "divide_at.0" /\ right[p].src = "divide_at.1"
              /\ left[p].of = p /\ right[p].of = p
        /\ \A p \in Annotated("default") :
              /\ OwnedBy(left, p) = {p}
              /\ right[p].src = "default"
        /\ \A p \in Annotated("clone") :
              /\ Cardinality(OwnedBy(left, p)) + Cardinality(OwnedBy(right, p)) = 1
              /\ {left[p].src, right[p].src} = {"self", "clone"}
              /\ left[p].of = p /\ right[p].of = p

C10_Witness ==
    /\ pc = "divided"
    /\ Annotated("clone") # {}
    /\ RecurseFields # {}
    /\ \E p \in Annotated("clone") : right[p].src = "self" /\ left[p].src = "clone"

\* what a sequence of iter calls applied to the inner field itself leaves
RECURSIVE DirectIter(_, _)
DirectIter(x, ss) ==
    IF ss = <<>> THEN x
    ELSE DirectIter(FieldIter(x, Head(ss)).remaining, Tail(ss))

Front(ss) == SubSeq(ss, 1, Len(ss) - 1)

\* C11: after any sequence of iter calls on a record, the inner field is
\* what the same calls applied to the inner field itself leave, the iterator
\* returned last is built from what the inner field's one iter call returned,
\* every other field has its initial value, and blocks_sizes and policy
\* return what the inner field's blocks_sizes and policy return.
C11_OnlyInnerFieldChanges ==
    pc = "par_ready" =>
        /\ DOMAIN current = DOMAIN self
        /\ \A p \in RecurseFields :
              /\ current[p] = DirectIter(self[p], calls)
              /\ calls # <<>> =>
                    sequential[1] =
                        [template |-> "iterator_extraction",
                         i |-> FieldIter(DirectIter(self[p], Front(calls)),
                                         calls[Len(calls)]).i]
              /\ sizes_hint # <<>> => sizes_hint[1] = FieldBlocksSizes(self[p])
              /\ policy_hint # <<>> => policy_hint[1] = FieldPolicy(self[p])
        /\ \A q \in DOMAIN self \ RecurseFields : current[q] = self[q]

C11_Witness ==
    /\ pc = "par_ready"
    /\ Len(self) = 2
    /\ calls = <<1, 1>>
    /\ sizes_hint = <<(<<1, 2>>)>>
    /\ policy_hint = <<Rayon(2)>>
    /\ \E p \in RecurseFields : current[p] # self[p] /\ current[p].items = <<>>
====
